---------------------------- MODULE Spec2Model ----------------------------
(***************************************************************************)
(* A model of package cflog (src/cflog.go): the payload classifier         *)
(* setEntryPayload, the Client (NewClient, Close, Log) and the package     *)
(* level singleton Log with its severity aliases.                          *)
(*                                                                         *)
(* Strings are sequences of one-character strings, byte slices are         *)
(* sequences of byte values.                                               *)
(***************************************************************************)
EXTENDS Integers, Sequences, FiniteSets, TLC

(***************************************************************************)
(* Bounds of the model.                                                    *)
(***************************************************************************)
\* longest string payload enumerated for the classifier
MaxLen == 6
\* longest byte-slice payload enumerated for the classifier
MaxBytesLen == 3
\* number of API calls started in one run of the client model
MaxCalls == 3
\* number of API calls started in one run with concurrent callers
MaxConcurrentCalls == 2

(***************************************************************************)
(* Strings and bytes.                                                      *)
(***************************************************************************)
Quote == "\""

Alphabet == {"{", "}", Quote, ":", "1", " "}

\* the byte values of the alphabet's characters (ASCII)
ByteOf(c) ==
    CASE c = "{" -> 123
      [] c = "}" -> 125
      [] c = Quote -> 34
      [] c = ":" -> 58
      [] c = "1" -> 49
      [] c = " " -> 32

ByteAlphabet == {ByteOf(c) : c \in Alphabet}

\* string(v) for a single byte of v
CharOf(b) == CHOOSE c \in Alphabet : ByteOf(c) = b

\* string(v), v a []byte                              (src/cflog.go:78)
BytesToString(v) == [i \in 1..Len(v) |-> CharOf(v[i])]

Strings(n) == UNION {[1..k -> Alphabet] : k \in 0..n}

ByteSlices(n) == UNION {[1..k -> ByteAlphabet] : k \in 0..n}

\* strings.HasPrefix(s, "{")                          (src/cflog.go:90)
HasPrefix(s, c) == Len(s) >= 1 /\ s[1] = c

\* strings.HasSuffix(s, "}")                          (src/cflog.go:90)
HasSuffix(s, c) == Len(s) >= 1 /\ s[Len(s)] = c

(***************************************************************************)
(* json.Marshal of the values that reach the default branch of the type    *)
(* switch.                                                                 *)
(***************************************************************************)
Digits == <<"0", "1", "2", "3", "4", "5", "6", "7", "8", "9">>

RECURSIVE Itoa(_)
Itoa(n) == IF n < 10 THEN <<Digits[n + 1]>>
           ELSE Itoa(n \div 10) \o <<Digits[(n % 10) + 1]>>

\* a JSON string literal; the keys and strings of Others need no escaping
QuoteString(s) == <<Quote>> \o s \o <<Quote>>

\* The values other than string, []byte and nil that are passed as payload:
\*   struct0      struct{}{}                 marshals to {}
\*   mapint       map[string]int{key: n}     marshals to {"key":n}
\*   mapstr       map[string]string{key: s}  marshals to {"key":"s"}
\*   int          int n                      marshals to n
\*   namedstring  type T string              marshals to "s"
\*   chan         a channel                  json.Marshal fails
Other(type, key, str, n) == [type |-> type, key |-> key, str |-> str, n |-> n]

NoOther == Other("none", <<>>, <<>>, 0)

Others ==
    {Other("struct0", <<>>, <<>>, 0), Other("chan", <<>>, <<>>, 0)}
    \cup {Other("mapint", k, <<>>, n) : k \in {<<>>, <<"1">>}, n \in {1, 11}}
    \cup {Other("mapstr", k, s, 0) : k \in {<<>>}, s \in {<<>>, <<"1">>}}
    \cup {Other("int", <<>>, <<>>, n) : n \in {1, 11}}
    \cup {Other("namedstring", <<>>, s, 0) : s \in {<<>>, <<"{", "}">>}}

\* json.Marshal(v): [err, data]                       (src/cflog.go:83)
Marshal(v) ==
    CASE v.type = "struct0" -> [err |-> FALSE, data |-> <<"{", "}">>]
      [] v.type = "mapint" ->
           [err |-> FALSE,
            data |-> <<"{">> \o QuoteString(v.key) \o <<":">> \o Itoa(v.n) \o <<"}">>]
      [] v.type = "mapstr" ->
           [err |-> FALSE,
            data |-> <<"{">> \o QuoteString(v.key) \o <<":">>
                       \o QuoteString(v.str) \o <<"}">>]
      [] v.type = "int" -> [err |-> FALSE, data |-> Itoa(v.n)]
      [] v.type = "namedstring" -> [err |-> FALSE, data |-> QuoteString(v.str)]
      [] OTHER -> [err |-> TRUE, data |-> <<>>]

(***************************************************************************)
(* jsonpb.UnmarshalString(s, &payload), payload a Struct: a json.Decoder   *)
(* reads the first JSON value of s, which must be an object; what follows  *)
(* the value is not read.  Over the alphabet a value is an object of at    *)
(* most one member, a string or a number.                                  *)
(***************************************************************************)
Fail == [ok |-> FALSE, next |-> 0, val |-> <<>>]

RECURSIVE SkipWS(_, _)
SkipWS(s, i) == IF i <= Len(s) /\ s[i] = " " THEN SkipWS(s, i + 1) ELSE i

RECURSIVE ClosingQuote(_, _)
\* the index of the first quote of s at or after i, 0 when there is none
ClosingQuote(s, i) ==
    IF i > Len(s) THEN 0
    ELSE IF s[i] = Quote THEN i ELSE ClosingQuote(s, i + 1)

\* a string literal starting at s[i]
ParseString(s, i) ==
    IF i > Len(s) \/ s[i] # Quote THEN Fail
    ELSE LET j == ClosingQuote(s, i + 1)
         IN  IF j = 0 THEN Fail
             ELSE [ok |-> TRUE, next |-> j + 1, val |-> SubSeq(s, i + 1, j - 1)]

RECURSIVE NumberEnd(_, _)
NumberEnd(s, i) == IF i <= Len(s) /\ s[i] = "1" THEN NumberEnd(s, i + 1) ELSE i

RECURSIVE Atoi(_)
Atoi(d) == IF d = <<>> THEN 0
           ELSE 10 * Atoi(SubSeq(d, 1, Len(d) - 1)) + 1

RECURSIVE ParseObject(_, _)
RECURSIVE ParseValue(_, _)

\* a value starting at s[i], leading white space skipped
ParseValue(s, i) ==
    LET j == SkipWS(s, i)
    IN  IF j > Len(s) THEN Fail
        ELSE IF s[j] = "{" THEN
            LET o == ParseObject(s, j)
            IN  IF o.ok THEN [ok |-> TRUE, next |-> o.next,
                              val |-> [t |-> "struct", fields |-> o.val]]
                ELSE Fail
        ELSE IF s[j] = Quote THEN
            LET r == ParseString(s, j)
            IN  IF r.ok THEN [ok |-> TRUE, next |-> r.next,
                              val |-> [t |-> "string", str |-> r.val]]
                ELSE Fail
        ELSE IF s[j] = "1" THEN
            LET e == NumberEnd(s, j)
            IN  [ok |-> TRUE, next |-> e,
                 val |-> [t |-> "number", n |-> Atoi(SubSeq(s, j, e - 1))]]
        ELSE Fail

\* an object starting at s[i] = "{": val is the sequence of its members
ParseObject(s, i) ==
    IF i > Len(s) \/ s[i] # "{" THEN Fail
    ELSE LET j == SkipWS(s, i + 1)
         IN  IF j > Len(s) THEN Fail
             ELSE IF s[j] = "}" THEN [ok |-> TRUE, next |-> j + 1, val |-> <<>>]
             ELSE LET k == ParseString(s, j)
                      c == SkipWS(s, k.next)
                  IN  IF ~k.ok \/ c > Len(s) \/ s[c] # ":" THEN Fail
                      ELSE LET v == ParseValue(s, c + 1)
                               e == SkipWS(s, v.next)
                           IN  IF ~v.ok \/ e > Len(s) \/ s[e] # "}" THEN Fail
                               ELSE [ok |-> TRUE, next |-> e + 1,
                                     val |-> <<[key |-> k.val, value |-> v.val]>>]

\* jsonpb.UnmarshalString(s, &payload): [err, payload] (src/cflog.go:92)
UnmarshalString(s) ==
    LET j == SkipWS(s, 1)
        o == ParseObject(s, j)
    IN  IF o.ok THEN [err |-> FALSE, payload |-> o.val]
        ELSE [err |-> TRUE, payload |-> <<>>]

(***************************************************************************)
(* setEntryPayload.                                                        *)
(***************************************************************************)
\* the payload argument `in`
Input(kind, str, bytes, oth) ==
    [kind |-> kind, str |-> str, bytes |-> bytes, oth |-> oth]

StringInput(s) == Input("string", s, <<>>, NoOther)
BytesInput(b) == Input("bytes", <<>>, b, NoOther)
NilInput == Input("nil", <<>>, <<>>, NoOther)
OtherInput(v) == Input("other", <<>>, <<>>, v)

\* LogEntry.Payload: unset, LogEntry_TextPayload or LogEntry_JsonPayload
Payload(tag, text, json) == [tag |-> tag, text |-> text, json |-> json]

NoPayload == Payload("unset", <<>>, <<>>)
TextPayload(s) == Payload("text", s, <<>>)
JsonPayload(p) == Payload("json", <<>>, p)

\* DerivedString with nil sent down the default branch to json.Marshal,
\* which encodes it as null
DerivedStringMarshalsNil(in) ==
    CASE in.kind = "string" -> [err |-> FALSE, s |-> in.str, marshalled |-> FALSE]
      [] in.kind = "bytes" ->
           [err |-> FALSE, s |-> BytesToString(in.bytes), marshalled |-> FALSE]
      [] in.kind = "nil" ->
           [err |-> FALSE, s |-> <<"n", "u", "l", "l">>, marshalled |-> TRUE]
      [] OTHER ->
           LET m == Marshal(in.oth)
           IN  [err |-> m.err, s |-> m.data, marshalled |-> TRUE]

\* the type switch: [err, s, marshalled]              (src/cflog.go:73-88)
DerivedString(in) ==
    CASE in.kind = "string" -> [err |-> FALSE, s |-> in.str, marshalled |-> FALSE]
      [] in.kind = "bytes" ->
           [err |-> FALSE, s |-> BytesToString(in.bytes), marshalled |-> FALSE]
      [] in.kind = "nil" -> [err |-> FALSE, s |-> <<>>, marshalled |-> FALSE]
      [] OTHER ->
           LET m == Marshal(in.oth)
           IN  [err |-> m.err, s |-> m.data, marshalled |-> TRUE]

RECURSIVE TrimRight(_)
TrimRight(s) ==
    IF s # <<>> /\ s[Len(s)] = " " THEN TrimRight(SubSeq(s, 1, Len(s) - 1)) ELSE s

\* LooksLikeObject on strings.TrimSpace(s) instead of s
LooksLikeObjectTrimmed(s) ==
    LET u == TrimRight(SubSeq(s, SkipWS(s, 1), Len(s)))
    IN  HasPrefix(u, "{") /\ HasSuffix(u, "}")

\* the brace check                                    (src/cflog.go:90)
LooksLikeObject(s) == HasPrefix(s, "{") /\ HasSuffix(s, "}")

\* PayloadOf with the test of the parse error inverted
PayloadOfInverted(s) ==
    IF LooksLikeObject(s) /\ UnmarshalString(s).err
    THEN JsonPayload(UnmarshalString(s).payload)
    ELSE TextPayload(s)

\* the payload set from the derived string s          (src/cflog.go:90-98)
PayloadOf(s) ==
    IF LooksLikeObject(s) /\ ~UnmarshalString(s).err
    THEN JsonPayload(UnmarshalString(s).payload)
    ELSE TextPayload(s)

\* setEntryPayload clearing the entry's payload before it returns the error
setEntryPayloadClears(payload, in) ==
    LET d == DerivedString(in)
    IN  IF d.err
        THEN [err |-> TRUE, payload |-> NoPayload, marshalled |-> d.marshalled]
        ELSE [err |-> FALSE, payload |-> PayloadOf(d.s), marshalled |-> d.marshalled]

\* setEntryPayload(entry, in): [err, payload, marshalled], payload the
\* entry's Payload field after the call               (src/cflog.go:72-100)
setEntryPayload(payload, in) ==
    LET d == DerivedString(in)
    IN  IF d.err
        THEN [err |-> TRUE, payload |-> payload, marshalled |-> d.marshalled]
        ELSE [err |-> FALSE, payload |-> PayloadOf(d.s), marshalled |-> d.marshalled]


(***************************************************************************)
(* Severity, Client, NewClient.                                            *)
(***************************************************************************)
SeverityDefault == 0
SeverityDebug == 100
SeverityInfo == 200
SeverityNotice == 300
SeverityWarning == 400
SeverityError == 500
SeverityCritical == 600
SeverityAlert == 700
SeverityEmergency == 800

\* a nil *logging.Client; the transport handles are 1, 2, ...
Nil == 0

\* the process environment read by NewClient
Envs ==
    {[GCP_PROJECT |-> p, FUNCTION_NAME |-> "f", FUNCTION_REGION |-> "r"] :
        p \in {"", "p"}}

\* fmt.Sprintf("projects/%s/logs/cloudfunctions.googleapis.com%scloud-functions",
\*             os.Getenv("GCP_PROJECT"), "%2F")         (src/cflog.go:54)
LogName(e) ==
    <<"projects/", e.GCP_PROJECT, "/logs/cloudfunctions.googleapis.com",
      "%2F", "cloud-functions">>

\* a nil *monitoredres.MonitoredResource
NilResource ==
    [nil |-> TRUE, Type |-> "",
     Labels |-> [function_name |-> "", project_id |-> "", region |-> ""]]

\* the resource descriptor                            (src/cflog.go:55-62)
MonitoredResource(e) ==
    [nil |-> FALSE, Type |-> "cloud_function",
     Labels |-> [function_name |-> e.FUNCTION_NAME,
                 project_id |-> e.GCP_PROJECT,
                 region |-> e.FUNCTION_REGION]]

\* the zero Client: Client{}                          (src/cflog.go:47)
ZeroClient == [client |-> Nil, logName |-> <<>>, logMonitoredResource |-> NilResource]

ClientFields == {"client", "logName", "logMonitoredResource"}

\* NewClient(ctx): [c, err, conns].  logging.NewClient fails when the context
\* is cancelled or the transport cannot be established (dial = "fail"); on
\* success it opens a new transport handle.            (src/cflog.go:46-65)
NewClient(ctx, dial, e, cs) ==
    IF ctx = "cancelled" \/ dial = "fail"
    THEN [c |-> ZeroClient, err |-> TRUE, conns |-> cs]
    ELSE [c |-> [client |-> Len(cs) + 1,
                 logName |-> LogName(e),
                 logMonitoredResource |-> MonitoredResource(e)],
          err |-> FALSE,
          conns |-> Append(cs, "open")]

\* c.client.Close(): [err, conns]                     (src/cflog.go:68-70)
CloseClient(c, cs) ==
    IF cs[c.client] = "open"
    THEN [err |-> FALSE, conns |-> [cs EXCEPT ![c.client] = "closed"]]
    ELSE [err |-> TRUE, conns |-> cs]

(***************************************************************************)
(* Client.Log.                                                             *)
(***************************************************************************)
\* c.client.WriteLogEntries(ctx, req): TRUE when it returns an error.  The
\* transport fails on a closed handle, on a cancelled context and when the
\* backend rejects or cannot be reached (net = "fail"). (src/cflog.go:116)
WriteLogEntries(ctx, conn, net) ==
    conn # "open" \/ ctx = "cancelled" \/ net = "fail"

\* the entry built by Client.Log                      (src/cflog.go:106-110)
LogEntry(c, severity, payload) ==
    [LogName |-> c.logName, Resource |-> c.logMonitoredResource,
     Severity |-> severity, Payload |-> payload]

\* the request                                        (src/cflog.go:115)
WriteLogEntriesRequest(entry) == [Entries |-> <<entry>>]

\* Client.Log returning nil whatever WriteLogEntries returned
ClientLogDropsError(c, ctx, severity, in, cs, net) ==
    LET p == setEntryPayload(NoPayload, in)
        req == WriteLogEntriesRequest(LogEntry(c, severity, p.payload))
    IN  IF p.err
        THEN [err |-> TRUE, sent |-> <<>>, werr |-> FALSE, conns |-> cs,
              panic |-> FALSE]
        ELSE IF c.client = Nil
        THEN [err |-> FALSE, sent |-> <<>>, werr |-> FALSE, conns |-> cs,
              panic |-> TRUE]
        ELSE [err |-> FALSE,
              sent |-> <<req>>,
              werr |-> WriteLogEntries(ctx, cs[c.client], net),
              conns |-> cs, panic |-> FALSE]

\* Client.Log submitting the request a second time when the first fails
ClientLogRetries(c, ctx, severity, in, cs, net) ==
    LET p == setEntryPayload(NoPayload, in)
        req == WriteLogEntriesRequest(LogEntry(c, severity, p.payload))
        failed == WriteLogEntries(ctx, cs[c.client], net)
    IN  IF p.err
        THEN [err |-> TRUE, sent |-> <<>>, werr |-> FALSE, conns |-> cs,
              panic |-> FALSE]
        ELSE IF c.client = Nil
        THEN [err |-> FALSE, sent |-> <<>>, werr |-> FALSE, conns |-> cs,
              panic |-> TRUE]
        ELSE [err |-> failed,
              sent |-> IF failed THEN <<req, req>> ELSE <<req>>,
              werr |-> failed,
              conns |-> cs, panic |-> FALSE]

\* Client.Log closing the transport handle when the submission fails
ClientLogClosesOnError(c, ctx, severity, in, cs, net) ==
    LET p == setEntryPayload(NoPayload, in)
        req == WriteLogEntriesRequest(LogEntry(c, severity, p.payload))
        failed == WriteLogEntries(ctx, cs[c.client], net)
    IN  IF p.err
        THEN [err |-> TRUE, sent |-> <<>>, werr |-> FALSE, conns |-> cs,
              panic |-> FALSE]
        ELSE IF c.client = Nil
        THEN [err |-> FALSE, sent |-> <<>>, werr |-> FALSE, conns |-> cs,
              panic |-> TRUE]
        ELSE [err |-> failed,
              sent |-> <<req>>,
              werr |-> failed,
              conns |-> IF failed THEN [cs EXCEPT ![c.client] = "closed"] ELSE cs,
              panic |-> FALSE]

\* c.Log(ctx, severity, payload): [err, sent, werr, conns, panic].  sent are
\* the requests handed to WriteLogEntries and werr tells that one of them
\* returned an error; conns are the transport handles after the call; panic
\* is the nil dereference of calling WriteLogEntries on a nil c.client.
\*                                                    (src/cflog.go:104-120)
ClientLog(c, ctx, severity, in, cs, net) ==
    LET p == setEntryPayload(NoPayload, in)
        req == WriteLogEntriesRequest(LogEntry(c, severity, p.payload))
    IN  IF p.err
        THEN [err |-> TRUE, sent |-> <<>>, werr |-> FALSE, conns |-> cs,
              panic |-> FALSE]
        ELSE IF c.client = Nil
        THEN [err |-> FALSE, sent |-> <<>>, werr |-> FALSE, conns |-> cs,
              panic |-> TRUE]
        ELSE [err |-> WriteLogEntries(ctx, cs[c.client], net),
              sent |-> <<req>>,
              werr |-> WriteLogEntries(ctx, cs[c.client], net),
              conns |-> cs, panic |-> FALSE]

(***************************************************************************)
(* The package-level Log and its aliases.                                  *)
(***************************************************************************)
\* the severity each entry point logs with            (src/cflog.go:125-153)
EntrySeverity(op, severity) ==
    CASE op = "Debug" -> SeverityDebug
      [] op = "Info" -> SeverityInfo
      [] op = "Warn" -> SeverityWarning
      [] op = "Error" -> SeverityError
      [] op = "Critical" -> SeverityCritical
      [] OTHER -> severity

Aliases == {"Debug", "Info", "Warn", "Error", "Critical"}

\* the test of line 126 always true: every call constructs
NeedsClientAlways(s) == TRUE

\* singleton.client == nil                            (src/cflog.go:126)
NeedsClient(s) == s.client = Nil

\* Log constructing with its caller's context
ConstructContextOfCaller(callerCtx) == callerCtx

\* the context NewClient is given by Log: context.Background() (src/cflog.go:128)
ConstructContext(callerCtx) == "background"

\* what Log hands back to its caller: it has no result (src/cflog.go:125-138)
LogResult(err) == "void"

\* whether Log prints to the standard logger          (src/cflog.go:129-137)
LogPrints(err) == err

(***************************************************************************)
(* State.                                                                  *)
(***************************************************************************)
VARIABLES
    env,        \* the process environment
    singleton,  \* var singleton Client                  (src/cflog.go:122)
    conns,      \* the transport handles opened so far: "open" or "closed"
    held,       \* the clients callers got from NewClient
    diag,       \* number of messages printed with log.Printf
    inits,      \* number of stores of a constructed client into singleton
    calls,      \* number of API calls started
    crashed,    \* the process died of a panic
    th,         \* the calling goroutines
    cIn,        \* classifier run: the argument `in`
    cPrior,     \* classifier run: entry.Payload before the call
    cOut,       \* classifier run: the result of setEntryPayload
    cStage      \* classifier run: "input" or "done"

vars == <<env, singleton, conns, held, diag, inits, calls, crashed, th,
          cIn, cPrior, cOut, cStage>>

clientVars == <<env, singleton, conns, held, diag, inits, calls, crashed, th>>

classifierVars == <<cIn, cPrior, cOut, cStage>>

Threads == {"g1", "g2"}

\* the payloads passed to the Log functions of the client model
Payloads ==
    {StringInput(<<"{", "}">>), OtherInput(Other("chan", <<>>, <<>>, 0))}

\* the severities passed to Log and Client.Log themselves
Severities == {SeverityNotice}

\* a goroutine outside any call
Idle ==
    [pc |-> "idle", op |-> "none", severity |-> SeverityDefault,
     in |-> NilInput, cancelled |-> FALSE,
     c |-> ZeroClient, err |-> FALSE, werr |-> FALSE, pending |-> {},
     ret |-> "none", sent |-> <<>>, built |-> "none", ctorCtx |-> "none",
     printed |-> 0, readyAtCall |-> FALSE, subCancelled |-> FALSE]

\* the caller's context as the callee sees it
Ctx(t) == IF th[t].cancelled THEN "cancelled" ELSE "live"

ClientInit ==
    /\ singleton = ZeroClient
    /\ conns = <<>>
    /\ held = <<>>
    /\ diag = 0
    /\ inits = 0
    /\ calls = 0
    /\ crashed = FALSE
    /\ th = [t \in Threads |-> Idle]

ClassifierIdle ==
    /\ cIn = NilInput
    /\ cPrior = NoPayload
    /\ cOut = [err |-> FALSE, payload |-> NoPayload, marshalled |-> FALSE]
    /\ cStage = "off"

\* the environment of the runs with concurrent callers
Env1 == [GCP_PROJECT |-> "p", FUNCTION_NAME |-> "f", FUNCTION_REGION |-> "r"]

Init ==
    /\ env = Env1
    /\ ClientInit
    /\ ClassifierIdle

SeqInit ==
    /\ env \in Envs
    /\ ClientInit
    /\ ClassifierIdle

(***************************************************************************)
(* Calls.                                                                  *)
(***************************************************************************)
CanCall(t) == th[t].pc = "idle" /\ calls < MaxCalls /\ ~crashed

\* a caller calls Log, Debug, Info, Warn, Error or Critical (src/cflog.go:125-153)
CallLog(t) ==
    /\ CanCall(t)
    /\ \E op \in Aliases \cup {"Log"}, s \in Severities, in \in Payloads :
         /\ op \in Aliases => s = SeverityNotice
         /\ th' = [th EXCEPT ![t] =
                     [Idle EXCEPT !.pc = "check", !.op = op,
                                  !.severity = EntrySeverity(op, s), !.in = in,
                                  !.readyAtCall = singleton.client # Nil]]
    /\ calls' = calls + 1
    /\ UNCHANGED <<env, singleton, conns, held, diag, inits, crashed, classifierVars>>

\* a caller calls NewClient                           (src/cflog.go:46)
CallNewClient(t) ==
    /\ CanCall(t)
    /\ th' = [th EXCEPT ![t] = [Idle EXCEPT !.pc = "new", !.op = "NewClient"]]
    /\ calls' = calls + 1
    /\ UNCHANGED <<env, singleton, conns, held, diag, inits, crashed, classifierVars>>

\* a caller calls c.Log on a client it holds          (src/cflog.go:104)
CallClientLog(t) ==
    /\ CanCall(t)
    /\ \E i \in 1..Len(held), s \in Severities, in \in Payloads :
         th' = [th EXCEPT ![t] =
                  [Idle EXCEPT !.pc = "log", !.op = "Client.Log", !.c = held[i],
                               !.severity = s, !.in = in]]
    /\ calls' = calls + 1
    /\ UNCHANGED <<env, singleton, conns, held, diag, inits, crashed, classifierVars>>

\* a caller calls c.Close on a client it holds        (src/cflog.go:68)
CallClose(t) ==
    /\ CanCall(t)
    /\ \E i \in 1..Len(held) :
         th' = [th EXCEPT ![t] =
                  [Idle EXCEPT !.pc = "close", !.op = "Client.Close", !.c = held[i]]]
    /\ calls' = calls + 1
    /\ UNCHANGED <<env, singleton, conns, held, diag, inits, crashed, classifierVars>>

\* the caller's context is cancelled before the construction or the
\* submission of its call completes
Cancel(t) ==
    /\ th[t].pc \in {"new", "construct", "log"} /\ ~crashed
    /\ ~th[t].cancelled
    /\ th' = [th EXCEPT ![t].cancelled = TRUE]
    /\ UNCHANGED <<env, singleton, conns, held, diag, inits, calls, crashed,
                   classifierVars>>

(***************************************************************************)
(* NewClient and Close called by a caller.                                 *)
(***************************************************************************)
DoNewClient(t) ==
    /\ th[t].pc = "new" /\ ~crashed
    /\ \E dial \in {"ok", "fail"} :
         LET r == NewClient(Ctx(t), dial, env, conns)
         IN  /\ conns' = r.conns
             /\ held' = IF r.err THEN held ELSE Append(held, r.c)
             /\ th' = [th EXCEPT ![t].pc = "done",
                                 ![t].ret = IF r.err THEN "error" ELSE "nil",
                                 ![t].built = IF r.err THEN "fail" ELSE "ok",
                                 ![t].ctorCtx = Ctx(t)]
    /\ UNCHANGED <<env, singleton, diag, inits, calls, crashed, classifierVars>>

DoClose(t) ==
    /\ th[t].pc = "close" /\ ~crashed
    /\ LET r == CloseClient(th[t].c, conns)
       IN  /\ conns' = r.conns
           /\ th' = [th EXCEPT ![t].pc = "done",
                               ![t].ret = IF r.err THEN "error" ELSE "nil"]
    /\ UNCHANGED <<env, singleton, held, diag, inits, calls, crashed, classifierVars>>

(***************************************************************************)
(* The steps of the package-level Log.  singleton is read and written      *)
(* without synchronization: the struct assignment of line 128 is modelled  *)
(* as one write per field in any order, so that a concurrent reader sees   *)
(* any mix of the old and the new fields.                                  *)
(***************************************************************************)
\* if singleton.client == nil                         (src/cflog.go:126)
Check(t) ==
    /\ th[t].pc = "check" /\ ~crashed
    /\ th' = [th EXCEPT ![t].pc = IF NeedsClient(singleton) THEN "construct"
                                  ELSE "call"]
    /\ UNCHANGED <<env, singleton, conns, held, diag, inits, calls, crashed,
                   classifierVars>>

\* NewClient(context.Background())                    (src/cflog.go:128)
Construct(t) ==
    /\ th[t].pc = "construct" /\ ~crashed
    /\ \E dial \in {"ok", "fail"} :
         LET r == NewClient(ConstructContext(Ctx(t)), dial, env, conns)
         IN  /\ conns' = r.conns
             /\ th' = [th EXCEPT ![t].pc = "store", ![t].c = r.c,
                                 ![t].err = r.err, ![t].pending = ClientFields,
                                 ![t].built = IF r.err THEN "fail" ELSE "ok",
                                 ![t].ctorCtx = ConstructContext(Ctx(t))]
    /\ UNCHANGED <<env, singleton, held, diag, inits, calls, crashed, classifierVars>>

\* singleton, err = ...; if err != nil { log.Printf; return } (src/cflog.go:128-132)
Store(t) ==
    /\ th[t].pc = "store" /\ ~crashed
    /\ \E f \in th[t].pending :
         LET last == th[t].pending = {f}
             fails == last /\ th[t].err
         IN  /\ singleton' = [singleton EXCEPT ![f] = th[t].c[f]]
             /\ inits' = IF f = "client" /\ th[t].c.client # Nil
                         THEN inits + 1 ELSE inits
             /\ diag' = IF fails /\ LogPrints(th[t].err) THEN diag + 1 ELSE diag
             /\ th' = [th EXCEPT
                         ![t].pending = @ \ {f},
                         ![t].pc = IF ~last THEN "store"
                                   ELSE IF fails THEN "done" ELSE "call",
                         ![t].ret = IF fails THEN LogResult(th[t].err) ELSE @,
                         ![t].printed = IF fails /\ LogPrints(th[t].err)
                                        THEN @ + 1 ELSE @]
    /\ UNCHANGED <<env, conns, held, calls, crashed, classifierVars>>

\* singleton.Log(...): the receiver is a copy of singleton (src/cflog.go:135)
Load(t) ==
    /\ th[t].pc = "call" /\ ~crashed
    /\ th' = [th EXCEPT ![t].pc = "log", ![t].c = singleton]
    /\ UNCHANGED <<env, singleton, conns, held, diag, inits, calls, crashed,
                   classifierVars>>

\* the body of Client.Log, for a caller's client or the singleton
\*                                                    (src/cflog.go:104-120)
DoClientLog(t) ==
    /\ th[t].pc = "log" /\ ~crashed
    /\ \E net \in {"ok", "fail"} :
         LET r == ClientLog(th[t].c, Ctx(t), th[t].severity, th[t].in, conns, net)
         IN  /\ crashed' = r.panic
             /\ conns' = r.conns
             /\ th' = [th EXCEPT
                         ![t].sent = r.sent,
                         ![t].err = r.err,
                         ![t].werr = r.werr,
                         ![t].subCancelled = th[t].cancelled,
                         ![t].pc = IF r.panic THEN "panic"
                                   ELSE IF th[t].op = "Client.Log" THEN "done"
                                   ELSE "logged",
                         ![t].ret = IF r.panic \/ th[t].op # "Client.Log" THEN @
                                    ELSE IF r.err THEN "error" ELSE "nil"]
    /\ UNCHANGED <<env, singleton, held, diag, inits, calls, classifierVars>>

\* if err := singleton.Log(...); err != nil { log.Printf } (src/cflog.go:135-138)
Logged(t) ==
    /\ th[t].pc = "logged" /\ ~crashed
    /\ diag' = IF LogPrints(th[t].err) THEN diag + 1 ELSE diag
    /\ th' = [th EXCEPT ![t].pc = "done",
                        ![t].ret = LogResult(th[t].err),
                        ![t].printed = IF LogPrints(th[t].err) THEN @ + 1 ELSE @]
    /\ UNCHANGED <<env, singleton, conns, held, inits, calls, crashed, classifierVars>>

\* the call has returned to its caller
Return(t) ==
    /\ th[t].pc = "done" /\ ~crashed
    /\ th' = [th EXCEPT ![t] = Idle]
    /\ UNCHANGED <<env, singleton, conns, held, diag, inits, calls, crashed,
                   classifierVars>>

Step(t) ==
    \/ Cancel(t)
    \/ DoNewClient(t)
    \/ DoClose(t)
    \/ Check(t)
    \/ Construct(t)
    \/ Store(t)
    \/ Load(t)
    \/ DoClientLog(t)
    \/ Logged(t)
    \/ Return(t)

Call(t) ==
    \/ CallLog(t)
    \/ CallNewClient(t)
    \/ CallClientLog(t)
    \/ CallClose(t)

\* goroutines call the package concurrently
Next == \E t \in Threads : (calls < MaxConcurrentCalls /\ Call(t)) \/ Step(t)

Spec == Init /\ [][Next]_vars

\* no other call is running
Alone(t) == \A u \in Threads \ {t} : th[u].pc = "idle"

\* the host calls the package synchronously, one call at a time
SeqNext == \E t \in Threads : (Alone(t) /\ Call(t)) \/ Step(t)

SeqSpec == SeqInit /\ [][SeqNext]_vars

(***************************************************************************)
(* Runs of the classifier alone.                                           *)
(***************************************************************************)
\* the arguments `in`: strings of up to n characters, byte slices of up to
\* m bytes, nil and the other values
Inputs(n, m) ==
    {StringInput(s) : s \in Strings(n)}
    \cup {BytesInput(b) : b \in ByteSlices(m)}
    \cup {NilInput}
    \cup {OtherInput(v) : v \in Others}

\* entry.Payload before the call: unset as in Client.Log, or set
PriorPayloads == {NoPayload, TextPayload(<<"1">>)}

ClassifyInit ==
    /\ env = Env1
    /\ ClientInit
    /\ cIn = NilInput
    /\ cPrior = NoPayload
    /\ cOut = [err |-> FALSE, payload |-> NoPayload, marshalled |-> FALSE]
    /\ cStage = "input"

\* setEntryPayload(entry, in) on an entry and an argument (src/cflog.go:72)
Classify ==
    /\ cStage = "input"
    /\ \E in \in Inputs(MaxLen, MaxBytesLen), prior \in PriorPayloads :
         /\ cIn' = in
         /\ cPrior' = prior
         /\ cOut' = setEntryPayload(prior, in)
    /\ cStage' = "done"
    /\ UNCHANGED clientVars

ClassifyNext == Classify

ClassifySpec == ClassifyInit /\ [][ClassifyNext]_vars

(***************************************************************************)
(* Properties.                                                             *)
(***************************************************************************)
\* the goroutine runs Log or one of its aliases
InLog(t) == th[t].op \in Aliases \cup {"Log"}

\* the goroutine's call has run the body of Client.Log
RanClientLog(t) ==
    /\ th[t].pc \in {"logged", "done"}
    /\ \/ th[t].op = "Client.Log"
       \/ InLog(t) /\ th[t].built # "fail"

\* classification of the goroutine's payload fails
ClassificationFails(t) == setEntryPayload(NoPayload, th[t].in).err

\* C1: over any interleaving of calls to Log and its aliases, a constructed
\* client is stored into the singleton at most once.
C1_ConstructedAtMostOnce == inits <= 1

\* C2: Client.Log returns an error to its caller exactly when classification
\* or WriteLogEntries fails and nil otherwise; Log and its aliases hand
\* nothing back, and each failure of theirs, of construction or of
\* submission, is one message on the standard logger and nothing else.
C2_ErrorPropagation ==
    \A t \in Threads :
        th[t].pc = "done" =>
            /\ th[t].op = "Client.Log" =>
                 /\ th[t].ret = "error" <=> (ClassificationFails(t) \/ th[t].werr)
                 /\ th[t].ret = "nil" <=> ~(ClassificationFails(t) \/ th[t].werr)
                 /\ th[t].printed = 0
            /\ InLog(t) =>
                 /\ th[t].ret = "void"
                 /\ th[t].printed =
                      IF th[t].built = "fail" \/ ClassificationFails(t) \/ th[t].werr
                      THEN 1 ELSE 0

\* a call of Log has failed in its submission and returned
C2_Witness ==
    \E t \in Threads :
        /\ th[t].pc = "done" /\ InLog(t)
        /\ th[t].werr /\ th[t].ret = "void" /\ th[t].printed = 1

\* C3: a call of Log that finds no client and fails to construct one hands
\* nothing to WriteLogEntries, and construction is always given the
\* background context, never the caller's.
C3_FailedConstruction ==
    \A t \in Threads :
        InLog(t) =>
            /\ th[t].built # "none" => th[t].ctorCtx = "background"
            /\ th[t].built = "fail" =>
                 /\ th[t].sent = <<>>
                 /\ th[t].pc \in {"store", "done"}
                 /\ th[t].pc = "done" => th[t].ret = "void"

\* a call of Log whose caller's context is cancelled has failed construction
\* and returned
C3_Witness ==
    \E t \in Threads :
        /\ th[t].pc = "done" /\ InLog(t) /\ ~th[t].readyAtCall
        /\ th[t].built = "fail" /\ th[t].cancelled /\ th[t].sent = <<>>

\* C4: a call of Client.Log hands WriteLogEntries exactly one request,
\* of exactly one entry with the client's log name and resource, the given
\* severity and the classified payload, when classification succeeds, and
\* none when it fails; a failed submission is not repeated.
C4_OneRequest ==
    \A t \in Threads :
        RanClientLog(t) =>
            IF ClassificationFails(t) THEN th[t].sent = <<>>
            ELSE th[t].sent =
                   <<[Entries |->
                        <<[LogName |-> th[t].c.logName,
                           Resource |-> th[t].c.logMonitoredResource,
                           Severity |-> th[t].severity,
                           Payload |-> setEntryPayload(NoPayload, th[t].in).payload]>>]>>

\* a call of Client.Log has handed over its request, which failed
C4_Witness ==
    \E t \in Threads :
        /\ th[t].pc = "done" /\ th[t].op = "Client.Log"
        /\ Len(th[t].sent) = 1 /\ th[t].werr
        /\ th[t].c.logName = LogName(env)

\* C5: a call of Client.Log whose context is cancelled before the submission
\* completes returns an error, and the client is as before the call: its
\* transport handle as open as it was, the singleton and the callers'
\* clients unchanged.
C5_CancelledLog ==
    [][\A t \in Threads :
          (th[t].pc = "log" /\ th[t].cancelled /\ th'[t].pc # "log") =>
              /\ th'[t].err
              /\ th[t].op = "Client.Log" => th'[t].ret = "error"
              /\ th'[t].c = th[t].c
              /\ th[t].c.client # Nil
              /\ conns' = conns
              /\ singleton' = singleton
              /\ held' = held]_vars

\* a cancelled call of Client.Log on an open client has returned its error
C5_Witness ==
    \E t \in Threads :
        /\ th[t].pc = "done" /\ th[t].op = "Client.Log" /\ th[t].subCancelled
        /\ th[t].ret = "error" /\ ~ClassificationFails(t)
        /\ conns[th[t].c.client] = "open"

\* C10: with calls made one at a time, a call of Log that fails to construct
\* leaves the singleton the zero Client, and a call that finds no client
\* attempts construction; a call that finds a client constructs nothing and
\* submits with that client; once the singleton holds a client it holds the
\* same client, its handle open, from then on.
C10_SingletonLifecycle ==
    /\ [](\A t \in Threads :
            (th[t].pc = "done" /\ InLog(t)) =>
                /\ th[t].built = "fail" => singleton = ZeroClient
                /\ ~th[t].readyAtCall => th[t].built # "none"
                /\ th[t].readyAtCall =>
                     /\ th[t].built = "none"
                     /\ RanClientLog(t)
                     /\ th[t].c = singleton)
    /\ [](singleton.client # Nil => conns[singleton.client] = "open")
    /\ [][/\ singleton.client # Nil => singleton'.client = singleton.client
          /\ (singleton.client # Nil /\ \A t \in Threads : th[t].pc # "store")
                => singleton' = singleton]_vars

\* a call of Log has found the client of an earlier call and submitted with it
C10_Witness ==
    \E t \in Threads :
        /\ th[t].pc = "done" /\ InLog(t) /\ th[t].readyAtCall
        /\ th[t].built = "none" /\ Len(th[t].sent) = 1
        /\ th[t].c = singleton /\ diag >= 1

(***************************************************************************)
(* Properties of setEntryPayload.                                          *)
(***************************************************************************)
\* s starts with "{" and ends with "}"
Braced(s) == s # <<>> /\ Head(s) = "{" /\ s[Len(s)] = "}"

\* s is a JSON text whose value is an object: white space, the object, white
\* space and nothing else
IsJSONObject(s) ==
    LET o == ParseObject(s, SkipWS(s, 1))
    IN  o.ok /\ SkipWS(s, o.next) > Len(s)

\* the document of the JSON object text s
ObjectOf(s) == ParseObject(s, SkipWS(s, 1)).val

\* the string derived from the classified input
Derived == DerivedString(cIn)

\* C6: a string that does not both start with "{" and end with "}" becomes
\* the text payload holding it unchanged, without error.
C6_PlainStringIsText ==
    (cStage = "done" /\ cIn.kind = "string" /\ ~Braced(cIn.str)) =>
        /\ ~cOut.err
        /\ cOut.payload = TextPayload(cIn.str)

\* the string " {} ", braces inside white space, was classified as text
C6_Witness ==
    /\ cStage = "done" /\ cIn = StringInput(<<" ", "{", "}", " ">>)
    /\ cOut.payload.tag = "text" /\ cOut.payload.text = <<" ", "{", "}", " ">>

\* C7 as stated: every input whose derived string is a valid JSON object
\* becomes the structured payload holding its document.
C7_ValidObjectIsStructured ==
    (cStage = "done" /\ cIn.kind # "nil" /\ ~Derived.err /\ IsJSONObject(Derived.s)) =>
        /\ ~cOut.err
        /\ cOut.payload = JsonPayload(ObjectOf(Derived.s))

\* C7 amended: every input whose derived string starts with "{", ends with
\* "}" and is a valid JSON object becomes the structured payload holding
\* its document, whichever kind of input it was derived from.
C7_BracedObjectIsStructured ==
    (/\ cStage = "done" /\ cIn.kind # "nil" /\ ~Derived.err
     /\ Braced(Derived.s) /\ IsJSONObject(Derived.s)) =>
        /\ ~cOut.err
        /\ cOut.payload = JsonPayload(ObjectOf(Derived.s))

\* the byte slice {} was classified as the empty document
C7_Witness ==
    /\ cStage = "done" /\ cIn = BytesInput(<<123, 125>>)
    /\ cOut.payload = JsonPayload(<<>>)

C9_NilIsEmptyText ==
    (cStage = "done" /\ cIn.kind = "nil") =>
        /\ ~cOut.err
        /\ ~cOut.marshalled
        /\ cOut.payload = TextPayload(<<>>)

\* nil was classified over an entry whose payload was set
C9_Witness ==
    /\ cStage = "done" /\ cIn = NilInput /\ cPrior # NoPayload
    /\ cOut.payload = TextPayload(<<>>)
=============================================================================
